---- MODULE Spec2Model ----
(***************************************************************************)
(* Model of pearl/utils/scripts/benchmark.py: the launcher run/evaluate,   *)
(* one process per (experiment, method, run index) executing               *)
(* evaluate_single, and the aggregator generate_one_plot.                  *)
(*                                                                         *)
(* Python strings are sequences of atoms (pieces of text that are never    *)
(* split further), so that f-string formatting is sequence concatenation.  *)
(* Python dicts are functions whose DOMAIN is the set of keys present.     *)
(* An optional value (None or a number) is a sequence of length 0 or 1.    *)
(***************************************************************************)
EXTENDS Integers, Sequences, FiniteSets, TLC

VARIABLES experiments, heap, pc, idx, all_processes, procs, disk, plot

vars == <<experiments, heap, pc, idx, all_processes, procs, disk, plot>>

(***************************************************************************)
(* Bounds of the model.                                                    *)
(***************************************************************************)
MaxUnits == 2

MaxRuns == 2

(***************************************************************************)
(* Dicts.                                                                  *)
(***************************************************************************)
EmptyDict == <<>>

Put(d, k, v) == [x \in (DOMAIN d) \cup {k} |-> IF x = k THEN v ELSE d[x]]

Del(d, k) == [x \in (DOMAIN d) \ {k} |-> d[x]]

Has(d, k) == k \in DOMAIN d

None == <<>>

Some(v) == <<v>>

(***************************************************************************)
(* Strings.                                                                *)
(***************************************************************************)
\* Python's `pat in s` for strings: pat occurs in s as a contiguous piece.
Contains(s, pat) ==
    \E i \in 1..(Len(s) + 1) :
        /\ i + Len(pat) - 1 <= Len(s)
        /\ SubSeq(s, i, i + Len(pat) - 1) = pat

DigitAtoms == <<"0", "1", "2", "3", "4", "5", "6", "7", "8", "9">>

\* f"{n}" for a non-negative int: its decimal digits.
RECURSIVE Decimal(_)
Decimal(n) ==
    IF n < 10 THEN <<DigitAtoms[n + 1]>>
    ELSE Decimal(n \div 10) \o <<DigitAtoms[(n % 10) + 1]>>

\* dir = f"outputs/{env_name}/{method_name}"
OutputDir(env_name, method_name) ==
    <<"outputs", "/">> \o env_name \o <<"/">> \o method_name

\* dir + f"/{run_idx}_{key}.npy"
OutputPath(env_name, method_name, run_idx, key) ==
    OutputDir(env_name, method_name)
        \o <<"/">> \o Decimal(run_idx) \o <<"_">> \o key \o <<".npy">>

(***************************************************************************)
(* Environments returned by get_env: the observation shape and the action  *)
(* space (n is absent for a continuous action space).                      *)
(***************************************************************************)
get_env(env_name) ==
    CASE env_name = <<"CartPole">> ->
            [shape |-> <<4>>, n |-> Some(2), action_dim |-> 1]
      [] env_name = <<"Pendulum">> ->
            [shape |-> <<3>>, n |-> None, action_dim |-> 2]
      [] OTHER ->
            [shape |-> <<3, 8, 6>>, n |-> Some(3), action_dim |-> 1]

(***************************************************************************)
(* evaluate_single, stage by stage.  Every stage maps the process's own    *)
(* method descriptor m to [m |-> the descriptor after the stage,           *)
(* err |-> whether the stage raised].  policy_learner_args and agent_args  *)
(* are the dicts stored in m (the code aliases them, lines 135-136).       *)
(***************************************************************************)
Ok(m) == [m |-> m, err |-> FALSE]

Raise(m) == [m |-> m, err |-> TRUE]

SetPLA(m, k, v) ==
    Put(m, "policy_learner_args", Put(m["policy_learner_args"], k, v))

SetAgentArg(m, k, v) == Put(m, "agent_args", Put(m["agent_args"], k, v))

\* state_dim taken from the last dimension of the observation shape
SetupLastDim(m, env) == Ok(SetPLA(m, "state_dim", env.shape[Len(env.shape)]))

\* lines 133-138
Setup(m, env) ==
    IF ~ ({"policy_learner", "policy_learner_args", "agent_args"} \subseteq DOMAIN m)
    THEN Raise(m)
    ELSE Ok(SetPLA(m, "state_dim", env.shape[1]))

\* lines 140-150
Exploration(m) ==
    IF Has(m, "exploration_module") /\ Has(m, "exploration_module_args")
    THEN LET m1 == SetPLA(m, "exploration_module", <<m["exploration_module"]>>)
         IN  IF Has(m, "exploration_module_wrapper")
             THEN IF Has(m, "exploration_module_wrapper_args")
                  THEN Ok(SetPLA(m1, "exploration_module",
                             <<m["exploration_module_wrapper"], m["exploration_module"]>>))
                  ELSE Raise(m1)
             ELSE Ok(m1)
    ELSE Ok(m)

\* lines 151-158
Buffers(m) ==
    LET m1 == IF Has(m, "replay_buffer") /\ Has(m, "replay_buffer_args")
              THEN SetAgentArg(m, "replay_buffer", m["replay_buffer"])
              ELSE m
    IN  IF Has(m, "safety_module") /\ Has(m, "safety_module_args")
        THEN SetAgentArg(m1, "safety_module", m["safety_module"])
        ELSE m1

\* lines 140-158
Modules(m) ==
    CHOOSE y \in {IF r.err THEN r ELSE Ok(Buffers(r.m)) : r \in {Exploration(m)}} : TRUE

\* The action representation module built from a class and its arguments:
\* what the later stages read of it is its representation_dim.
ActionRepresentation(cls, args) ==
    [cls |-> cls,
     representation_dim |->
        CASE cls = "OneHotActionTensorRepresentationModule" ->
                Some(args["max_number_actions"])
          [] cls = "IdentityActionRepresentationModule" ->
                IF Has(args, "representation_dim")
                THEN Some(args["representation_dim"]) ELSE None
          [] OTHER ->
                IF Has(args, "representation_dim")
                THEN Some(args["representation_dim"]) ELSE None]

\* lines 159-185
ActionRep(m, env) ==
    IF Has(m, "action_representation_module")
       /\ Has(m, "action_representation_module_args")
    THEN LET cls   == m["action_representation_module"]
             a0    == m["action_representation_module_args"]
             isOH  == cls = "OneHotActionTensorRepresentationModule"
             isId  == cls = "IdentityActionRepresentationModule"
         IN  IF (isOH \/ isId) /\ env.n = None
             THEN Raise(m)
             ELSE LET a1 == IF isOH THEN Put(a0, "max_number_actions", env.n[1]) ELSE a0
                      a2 == IF isId
                            THEN Put(Put(a1, "max_number_actions", env.n[1]),
                                     "representation_dim", env.action_dim)
                            ELSE a1
                      m1 == Put(m, "action_representation_module_args", a2)
                  IN  Ok(SetPLA(m1, "action_representation_module",
                                ActionRepresentation(cls, a2)))
    ELSE Ok(SetPLA(m, "action_representation_module",
                   ActionRepresentation("IdentityActionRepresentationModule", EmptyDict)))

\* The action dimension read from the environment, not from the representation
HistoryActionDimOfEnv(m, env) == Some(env.action_dim)

\* lines 198-202 and 214-218: the action dimension the history module is given
HistoryActionDim(m, env) ==
    IF Has(m["policy_learner_args"], "action_representation_module")
    THEN m["policy_learner_args"]["action_representation_module"].representation_dim
    ELSE Some(env.action_dim)

\* lines 203-206
StackedStateDim(hargs) ==
    (hargs["observation_dim"] + hargs["action_dim"][1]) * hargs["history_length"]

\* lines 187-225
History(m, env) ==
    IF Has(m, "history_summarization_module")
       /\ Has(m, "history_summarization_module_args")
    THEN LET cls == m["history_summarization_module"]
             h0  == m["history_summarization_module_args"]
             h2  == Put(Put(h0, "observation_dim", env.shape[1]),
                        "action_dim", HistoryActionDim(m, env))
             m2  == Put(m, "history_summarization_module_args", h2)
             Finish(mm) == Ok(SetAgentArg(mm, "history_summarization_module",
                                 [cls |-> cls,
                                  args |-> mm["history_summarization_module_args"]]))
         IN  CASE cls = "StackingHistorySummarizationModule" ->
                    IF h2["action_dim"] = None \/ ~ Has(h2, "history_length")
                    THEN Raise(m2)
                    ELSE Finish(SetPLA(m2, "state_dim", StackedStateDim(h2)))
               [] cls = "LSTMHistorySummarizationModule" ->
                    IF ~ Has(h2, "hidden_dim")
                    THEN Raise(m2)
                    ELSE Finish(SetPLA(m2, "state_dim", h2["hidden_dim"]))
               [] OTHER -> Finish(m)
    ELSE Ok(m)

\* r, then stage F unless r raised (r is evaluated once)
Then(r, F(_)) == CHOOSE y \in {IF x.err THEN x ELSE F(x.m) : x \in {r}} : TRUE

CNNQ == {"CNNQValueNetwork", "CNNQValueMultiHeadNetwork"}

\* A CNN module built from the 3-D observation shape (assumed channel-first):
\* input_width = shape[2], input_height = shape[1], input_channels_count =
\* shape[0] (0-based), kept here as <<width, height, channels>>.
CNNInstance(cls, env, action_dim, output_dim, twin) ==
    [cls |-> cls, input |-> <<env.shape[3], env.shape[2], env.shape[1]>>,
     action_dim |-> action_dim, output_dim |-> output_dim, twin |-> twin]

\* A network built from state_dim and action_dim (lines 318-322, 325-329)
VectorInstance(cls, state_dim, action_dim) ==
    [cls |-> cls, input |-> <<state_dim>>,
     action_dim |-> Some(action_dim), output_dim |-> None, twin |-> FALSE]

RepresentationDim(m) ==
    m["policy_learner_args"]["action_representation_module"].representation_dim

\* lines 227-246
NetworkModule(m, env) ==
    IF Has(m, "network_module") /\ m["network_module"] \in CNNQ
    THEN IF Len(env.shape) < 3 \/ ~ Has(m, "network_args")
         THEN Raise(m)
         ELSE Ok(SetPLA(m, "network_instance",
                    CNNInstance(m["network_module"], env, RepresentationDim(m),
                        IF m["network_module"] = "CNNQValueNetwork"
                        THEN Some(1) ELSE RepresentationDim(m),
                        FALSE)))
    ELSE Ok(m)

\* lines 247-286
CriticQModule(m, env) ==
    IF Has(m, "critic_network_module") /\ m["critic_network_module"] \in CNNQ
    THEN IF Len(env.shape) < 3 \/ ~ Has(m, "critic_network_args")
         THEN Raise(m)
         ELSE Ok(SetPLA(m, "critic_network_instance",
                    CNNInstance(m["critic_network_module"], env, RepresentationDim(m),
                        IF m["critic_network_module"] = "CNNQValueNetwork"
                        THEN Some(1) ELSE RepresentationDim(m),
                        Has(m, "use_twin_critic") /\ m["use_twin_critic"])))
    ELSE Ok(m)

\* lines 288-300
CriticVModule(m, env) ==
    IF Has(m, "critic_network_module") /\ m["critic_network_module"] = "CNNValueNetwork"
    THEN IF Len(env.shape) < 3 \/ ~ Has(m, "critic_network_args")
         THEN Raise(m)
         ELSE Ok(SetPLA(m, "critic_network_instance",
                    CNNInstance("CNNValueNetwork", env, None, Some(1), FALSE)))
    ELSE Ok(m)

\* lines 302-314
ActorModule(m, env) ==
    IF Has(m, "actor_network_module") /\ m["actor_network_module"] = "CNNActorNetwork"
    THEN IF Len(env.shape) < 3 \/ ~ Has(m, "actor_network_args")
         THEN Raise(m)
         ELSE Ok(SetPLA(m, "actor_network_instance",
                    CNNInstance("CNNActorNetwork", env, None, RepresentationDim(m), FALSE)))
    ELSE Ok(m)

\* lines 227-314
Networks(m, env) ==
    LET N1(x) == CriticQModule(x, env)
        N2(x) == CriticVModule(x, env)
        N3(x) == ActorModule(x, env)
    IN  Then(Then(Then(NetworkModule(m, env), N1), N2), N3)

\* line 316: the test that selects the Dueling DQN branch
IsDueling(name) == name = <<"DuelingDQN">>

\* line 323: the test that selects the Bootstrapped DQN branch
IsBootstrapped(name) == name = <<"BootstrappedDQN">>

\* line 332
IsDynamic(name) == Contains(name, <<"dynamic">>)

\* lines 316-322
Dueling(m, env) ==
    IF IsDueling(m["name"])
    THEN IF ~ (Has(m, "network_module") /\ Has(m, "network_args")) \/ env.n = None
         THEN Raise(m)
         ELSE Ok(SetPLA(m, "network_instance",
                    VectorInstance(m["network_module"], env.shape[1], env.n[1])))
    ELSE Ok(m)

\* The Bootstrapped DQN branch without the del of line 330
BootstrappedKeepsStateDim(m, env) ==
    IF IsBootstrapped(m["name"])
    THEN IF ~ (Has(m, "network_module") /\ Has(m, "network_args")) \/ env.n = None
         THEN Raise(m)
         ELSE Ok(SetPLA(m, "q_ensemble_network",
                    VectorInstance(m["network_module"], env.shape[1], env.n[1])))
    ELSE Ok(m)

\* lines 323-330
Bootstrapped(m, env) ==
    IF IsBootstrapped(m["name"])
    THEN IF ~ (Has(m, "network_module") /\ Has(m, "network_args")) \/ env.n = None
         THEN Raise(m)
         ELSE LET m1 == SetPLA(m, "q_ensemble_network",
                            VectorInstance(m["network_module"], env.shape[1], env.n[1]))
              IN  IF Has(m1["policy_learner_args"], "state_dim")
                  THEN Ok(Put(m1, "policy_learner_args",
                              Del(m1["policy_learner_args"], "state_dim")))
                  ELSE Raise(m1)
    ELSE Ok(m)

\* lines 332-333
Dynamic(m) ==
    IF IsDynamic(m["name"])
    THEN IF Has(m, "actor_network_type")
         THEN Ok(SetPLA(m, "actor_network_type", m["actor_network_type"]))
         ELSE Raise(m)
    ELSE Ok(m)

\* lines 316-335
Named(m, env) ==
    LET B(x) == Bootstrapped(x, env)
        D(x) == Dynamic(x)
        A(x) == Ok(SetPLA(x, "action_space", [n |-> env.n, action_dim |-> env.action_dim]))
    IN  IF ~ Has(m, "name") THEN Raise(m)
        ELSE Then(Then(Then(Dueling(m, env), B), D), A)

\* lines 133-335: the whole resolution, the stages in the order of the code
Resolve(m, env) ==
    LET S2(x) == Modules(x)
        S3(x) == ActionRep(x, env)
        S4(x) == History(x, env)
        S5(x) == Networks(x, env)
        S6(x) == Named(x, env)
    IN  Then(Then(Then(Then(Then(Setup(m, env), S2), S3), S4), S5), S6)

\* lines 336-341: the agent built from the resolved arguments
PearlAgent(m) ==
    [policy_learner |-> [cls |-> m["policy_learner"], args |-> m["policy_learner_args"]],
     agent_args |-> m["agent_args"]]

(***************************************************************************)
(* The launcher's inputs.  An experiment is a dict; its methods are        *)
(* references (ids) to method descriptor objects of the launcher's heap,   *)
(* so that one descriptor object can appear in several experiments.        *)
(***************************************************************************)
Return == <<"return">>

ReturnCost == <<"return", "_", "cost">>

MethodIds == {1, 2}

StepsExperiment(exp_name, env_name, steps, every, period, device) ==
    [exp_name |-> exp_name, env_name |-> env_name, num_steps |-> steps,
     print_every_x_steps |-> every, record_period |-> period, device_id |-> device]

EpisodesExperiment(exp_name, env_name, episodes, every, period, device) ==
    [exp_name |-> exp_name, env_name |-> env_name, num_episodes |-> episodes,
     print_every_x_episodes |-> every, record_period |-> period, device_id |-> device]

ExperimentTemplates ==
    { StepsExperiment(<<"a">>, <<"CartPole">>, 4, 2, 2, 0),
      EpisodesExperiment(<<"b">>, <<"CartPole">>, 3, 1, 1, 1),
      StepsExperiment(<<"c">>, <<"Pendulum">>, 6, 3, 2, 0) }

BaseMethod(name) ==
    [name |-> name, policy_learner |-> "PolicyLearner",
     policy_learner_args |-> [hidden_dims |-> <<64, 64>>]]

\* A method with a one-hot action representation and a stacking history
StackingDQN ==
    BaseMethod(<<"DQN">>) @@
    [action_representation_module |-> "OneHotActionTensorRepresentationModule",
     action_representation_module_args |-> EmptyDict,
     history_summarization_module |-> "StackingHistorySummarizationModule",
     history_summarization_module_args |-> [history_length |-> 2],
     replay_buffer |-> "BasicReplayBuffer", replay_buffer_args |-> [capacity |-> 10]]

PlainSAC == BaseMethod(<<"SAC">>)

\* The method descriptor objects of the launcher's heap, by id
LaunchHeap == <<StackingDQN, PlainSAC>>

SeqsUpTo(S, n) == UNION {[1..k -> S] : k \in 1..n}

\* The number of processes an experiment asks for
Units(exp) == Len(exp["methods"]) * exp["num_runs"]

\* The size of an experiment as the bound counts it: an experiment of no run
\* counts as its methods
Size(exp) == Len(exp["methods"]) * (IF exp["num_runs"] = 0 THEN 1 ELSE exp["num_runs"])

RECURSIVE TotalSize(_)
TotalSize(exps) ==
    IF exps = <<>> THEN 0 ELSE Size(Head(exps)) + TotalSize(Tail(exps))

LaunchExperiments ==
    { e \in { t @@ [methods |-> ms, num_runs |-> r] :
                t \in ExperimentTemplates, ms \in SeqsUpTo(MethodIds, MaxUnits),
                r \in 0..MaxUnits } :
        Size(e) <= MaxUnits }

LaunchLists ==
    { exps \in SeqsUpTo(LaunchExperiments, MaxUnits) : TotalSize(exps) <= MaxUnits }

(***************************************************************************)
(* The launcher: run and evaluate.                                         *)
(***************************************************************************)
\* experiment.get(key): None when the key is absent
Get(d, k) == IF Has(d, k) THEN Some(d[k]) ELSE None

\* A range that starts at 1
RunIndicesFromOne(num_runs) ==
    IF num_runs <= 1 THEN <<>> ELSE [r \in 1..(num_runs - 1) |-> r]

\* range(num_runs) of line 103
RunIndices(num_runs) == [r \in 1..num_runs |-> r - 1]

\* lines 104-116: the process object; e and mpos (the experiment's and the
\* method's position) identify the unit and are not read by the program.
Process(exp, e, mpos, run_idx) ==
    [env_name |-> exp["env_name"], method |-> exp["methods"][mpos], run_idx |-> run_idx,
     num_episodes |-> Get(exp, "num_episodes"), num_steps |-> Get(exp, "num_steps"),
     print_every_x_episodes |-> Get(exp, "print_every_x_episodes"),
     print_every_x_steps |-> Get(exp, "print_every_x_steps"),
     record_period |-> exp["record_period"], e |-> e, mpos |-> mpos]

\* lines 103-117, for one method
MethodProcesses(exp, e, mpos) ==
    LET runs == RunIndices(exp["num_runs"])
    IN  [k \in 1..Len(runs) |-> Process(exp, e, mpos, runs[k])]

\* lines 101-117: the processes list of one experiment
RECURSIVE ExperimentProcesses(_, _, _)
ExperimentProcesses(exp, e, mpos) ==
    IF mpos > Len(exp["methods"]) THEN <<>>
    ELSE MethodProcesses(exp, e, mpos) \o ExperimentProcesses(exp, e, mpos + 1)

\* line 102, for every method of the experiment
InjectDevice(h, exp) ==
    [id \in DOMAIN h |->
        IF \E mpos \in 1..Len(exp["methods"]) : exp["methods"][mpos] = id
        THEN Put(h[id], "agent_args", [device_id |-> exp["device_id"]])
        ELSE h[id]]

NewProc ==
    [pc |-> "created", method |-> EmptyDict, entry |-> EmptyDict, passed |-> None,
     info |-> <<>>, returned |-> {}, written |-> {}, failed |-> FALSE]

\* what the launcher does after the loop of line 81
AfterEvaluate(e, ps) ==
    IF e < Len(experiments) THEN <<"evaluate", e + 1>>
    ELSE IF Len(ps) = 0 THEN <<"done", 0>> ELSE <<"start", 1>>

\* lines 81-82 and 90-119: evaluate(e, all_processes) for the next experiment
RunEvaluate ==
    /\ pc = "evaluate"
    /\ LET exp == experiments[idx]
           new == ExperimentProcesses(exp, idx, 1)
           ps  == all_processes \o new
       IN  /\ heap' = InjectDevice(heap, exp)
           /\ all_processes' = ps
           /\ procs' = procs \o [k \in 1..Len(new) |-> NewProc]
           /\ pc'  = AfterEvaluate(idx, ps)[1]
           /\ idx' = AfterEvaluate(idx, ps)[2]
    /\ UNCHANGED <<experiments, disk, plot>>

\* The memory a started process sees of its method argument: the launcher's
\* descriptor as it is when the process is started.
ChildMethod(h, id) == h[id]

\* A start loop that stops after its first process
AfterStartBreak(i, n) == <<"join", 1>>

\* lines 84-86: the start loop goes on to the next process, and the join
\* loop begins after the last one
AfterStart(i, n) == IF i < n THEN <<"start", i + 1>> ELSE <<"join", 1>>

\* lines 84-85: p.start() for the next process
RunStart ==
    /\ pc = "start"
    /\ LET m == ChildMethod(heap, all_processes[idx].method)
       IN  procs' = [procs EXCEPT ![idx] = [@ EXCEPT !.pc = "resolve", !.method = m,
                                                      !.entry = m]]
    /\ pc'  = AfterStart(idx, Len(all_processes))[1]
    /\ idx' = AfterStart(idx, Len(all_processes))[2]
    /\ UNCHANGED <<experiments, heap, all_processes, disk, plot>>

\* A join that does not wait for the process to terminate
JoinReturnsAtOnce(p) == p.pc # "created"

\* A join that waits for a result only a successful process gives
JoinReturnsOnSuccess(p) == p.pc = "exited" /\ ~ p.failed

\* line 87: p.join() returns once the process has terminated, whatever its
\* exit status
JoinReturns(p) == p.pc = "exited"

\* lines 86-87: p.join() for the next process
RunJoin ==
    /\ pc = "join"
    /\ JoinReturns(procs[idx])
    /\ IF idx < Len(all_processes)
       THEN pc' = "join" /\ idx' = idx + 1
       ELSE pc' = "done" /\ idx' = 0
    /\ UNCHANGED <<experiments, heap, all_processes, procs, disk, plot>>

(***************************************************************************)
(* One process: evaluate_single(env_name, method, run_idx, ...).           *)
(***************************************************************************)
\* Memory shared between the launcher and its processes, as threads have it
SharedMemory(h, id, m) == [h EXCEPT ![id] = m]

\* What the launcher's descriptor id is after process i has changed its own
\* descriptor to m: mp.Process gives the child its own memory, so nothing.
ParentMemory(h, id, m) == h

Raised(p, m) == [p EXCEPT !.pc = "exited", !.failed = TRUE, !.method = m]

\* A stage of evaluate_single with outcome r, from position `from` to `to`
StageStep(i, from, to, r) ==
    /\ i \in 1..Len(procs)
    /\ procs[i].pc = from
    /\ \E x \in {r} :
          /\ procs' = [procs EXCEPT ![i] =
                          IF x.err THEN Raised(@, x.m)
                          ELSE [@ EXCEPT !.pc = to, !.method = x.m]]
          /\ heap' = ParentMemory(heap, all_processes[i].method, x.m)
    /\ UNCHANGED <<experiments, pc, idx, all_processes, disk, plot>>

Env(i) == get_env(all_processes[i].env_name)

StageSetup(i) == StageStep(i, "setup", "modules", Setup(procs[i].method, Env(i)))

StageModules(i) == StageStep(i, "modules", "action_rep", Modules(procs[i].method))

StageActionRep(i) ==
    StageStep(i, "action_rep", "history", ActionRep(procs[i].method, Env(i)))

StageHistory(i) == StageStep(i, "history", "networks", History(procs[i].method, Env(i)))

StageNetworks(i) == StageStep(i, "networks", "named", Networks(procs[i].method, Env(i)))

StageNamed(i) == StageStep(i, "named", "construct", Named(procs[i].method, Env(i)))

\* lines 336-341: the policy learner and the agent are constructed
StageConstruct(i) ==
    /\ i \in 1..Len(procs)
    /\ procs[i].pc = "construct"
    /\ procs' = [procs EXCEPT ![i] =
                    [@ EXCEPT !.pc = "train",
                              !.passed = Some(PearlAgent(procs[i].method).policy_learner.args)]]
    /\ UNCHANGED <<experiments, heap, pc, idx, all_processes, disk, plot>>

\* lines 133-341 in one step: resolution, then construction
UnitResolve(i) ==
    /\ i \in 1..Len(procs)
    /\ procs[i].pc = "resolve"
    /\ \E r \in {Resolve(procs[i].method, Env(i))} :
          /\ procs' = [procs EXCEPT ![i] =
                          IF r.err THEN Raised(@, r.m)
                          ELSE [@ EXCEPT !.pc = "train", !.method = r.m,
                                   !.passed = Some(PearlAgent(r.m).policy_learner.args)]]
          /\ heap' = ParentMemory(heap, all_processes[i].method, r.m)
    /\ UNCHANGED <<experiments, pc, idx, all_processes, disk, plot>>

\* The metrics online_learning may return, in the order of the dict
MetricLists == {<<Return>>, <<Return, ReturnCost>>}

\* lines 342-358: online_learning returns the info dict
UnitTrain(i) ==
    /\ i \in 1..Len(procs)
    /\ procs[i].pc = "train"
    /\ \E info \in MetricLists :
          procs' = [procs EXCEPT ![i] =
                      [@ EXCEPT !.pc = "save", !.info = info,
                                !.returned = {info[k] : k \in 1..Len(info)}]]
    /\ UNCHANGED <<experiments, heap, pc, idx, all_processes, disk, plot>>

\* lines 342-358: online_learning (or the environment) raises
UnitTrainFails(i) ==
    /\ i \in 1..Len(procs)
    /\ procs[i].pc = "train"
    /\ procs' = [procs EXCEPT ![i] = Raised(@, @.method)]
    /\ UNCHANGED <<experiments, heap, pc, idx, all_processes, disk, plot>>

\* The number of samples of a recorded metric
Points(p) ==
    (IF p.num_steps # None THEN p.num_steps[1] ELSE p.num_episodes[1]) \div p.record_period

\* lines 359-362, one np.save of the loop
UnitSave(i) ==
    /\ i \in 1..Len(procs)
    /\ procs[i].pc = "save"
    /\ LET p    == all_processes[i]
           path == OutputPath(p.env_name, procs[i].method["name"], p.run_idx,
                              Head(procs[i].info))
       IN  /\ disk' = Put(disk, path, <<Points(p)>>)
           /\ procs' = [procs EXCEPT ![i] =
                          [@ EXCEPT !.info = Tail(@),
                                    !.written = @ \cup {path},
                                    !.pc = IF Len(procs[i].info) = 1
                                           THEN "exited" ELSE "save"]]
    /\ UNCHANGED <<experiments, heap, pc, idx, all_processes, plot>>

NoPlot == [pc |-> "idle"]

\* run(experiments) is called with a non-empty list (line 78)
Init ==
    /\ experiments \in LaunchLists
    /\ heap = LaunchHeap
    /\ pc = "evaluate"
    /\ idx = 1
    /\ all_processes = <<>>
    /\ procs = <<>>
    /\ disk = EmptyDict
    /\ plot = NoPlot

Unit(i) == UnitResolve(i) \/ UnitTrain(i) \/ UnitTrainFails(i) \/ UnitSave(i)

Next ==
    \/ RunEvaluate
    \/ RunStart
    \/ RunJoin
    \/ \E i \in 1..MaxUnits : Unit(i)

Spec == Init /\ [][Next]_vars

(***************************************************************************)
(* One call of evaluate_single, stage by stage, for a wide choice of       *)
(* method descriptors and environments: the state right after run has      *)
(* started the only process of a launch of one experiment, one method and  *)
(* one run.                                                                *)
(***************************************************************************)
ResolveNames ==
    { <<"DQN">>, <<"DuelingDQN">>, <<"BootstrappedDQN">>,
      <<"BootstrappedDQN", "-", "v2">>, <<"dynamic", "-", "DQN">> }

ActionRepChoices ==
    { EmptyDict,
      [action_representation_module |-> "OneHotActionTensorRepresentationModule"],
      [action_representation_module |-> "OneHotActionTensorRepresentationModule",
       action_representation_module_args |-> EmptyDict],
      [action_representation_module |-> "IdentityActionRepresentationModule",
       action_representation_module_args |-> EmptyDict],
      [action_representation_module |-> "BinaryActionTensorRepresentationModule",
       action_representation_module_args |-> [representation_dim |-> 3]] }

HistoryChoices ==
    { EmptyDict,
      [history_summarization_module |-> "StackingHistorySummarizationModule",
       history_summarization_module_args |-> [history_length |-> 2]],
      [history_summarization_module |-> "StackingHistorySummarizationModule",
       history_summarization_module_args |-> [history_length |-> 3]],
      [history_summarization_module |-> "LSTMHistorySummarizationModule",
       history_summarization_module_args |-> [history_length |-> 2, hidden_dim |-> 8]],
      [history_summarization_module |-> "IdentityHistorySummarizationModule",
       history_summarization_module_args |-> EmptyDict] }

NetworkChoices ==
    { EmptyDict,
      [network_module |-> "CNNQValueNetwork", network_args |-> [kernel_sizes |-> <<2>>]],
      [network_module |-> "CNNQValueMultiHeadNetwork",
       network_args |-> [kernel_sizes |-> <<2>>]],
      [network_module |-> "DuelingQValueNetwork", network_args |-> [hidden_dims |-> <<64>>]] }

ActorCriticChoices ==
    { EmptyDict,
      [critic_network_module |-> "CNNQValueNetwork",
       critic_network_args |-> [kernel_sizes |-> <<2>>], use_twin_critic |-> TRUE,
       actor_network_module |-> "CNNActorNetwork",
       actor_network_args |-> [kernel_sizes |-> <<2>>]],
      [critic_network_module |-> "CNNValueNetwork",
       critic_network_args |-> [kernel_sizes |-> <<2>>]] }

OtherChoices ==
    { EmptyDict,
      [exploration_module |-> "EGreedyExploration",
       exploration_module_args |-> [epsilon |-> 1],
       exploration_module_wrapper |-> "Warmup",
       exploration_module_wrapper_args |-> [warmup_steps |-> 1],
       safety_module |-> "RCSafetyModule", safety_module_args |-> EmptyDict,
       actor_network_type |-> "DynamicActionActorNetwork"] }

ResolveMethods ==
    { BaseMethod(n) @@ a @@ h @@ nw @@ ac @@ o :
        n \in ResolveNames, a \in ActionRepChoices, h \in HistoryChoices,
        nw \in NetworkChoices, ac \in ActorCriticChoices, o \in OtherChoices }

ResolveExperiments ==
    { t @@ [methods |-> <<1>>, num_runs |-> 1] :
        t \in ExperimentTemplates
              \cup {StepsExperiment(<<"d">>, <<"ALE", "/", "Pong">>, 4, 2, 2, 1)} }

ResolveInit ==
    /\ experiments \in {<<e>> : e \in ResolveExperiments}
    /\ \E m \in ResolveMethods :
          heap = InjectDevice(<<m>>, experiments[1])
    /\ pc = "join"
    /\ idx = 1
    /\ all_processes = ExperimentProcesses(experiments[1], 1, 1)
    /\ procs = <<[NewProc EXCEPT !.pc = "setup", !.method = ChildMethod(heap, 1),
                                 !.entry = ChildMethod(heap, 1)]>>
    /\ disk = EmptyDict
    /\ plot = NoPlot

ResolveNext ==
    \/ StageSetup(1)
    \/ StageModules(1)
    \/ StageActionRep(1)
    \/ StageHistory(1)
    \/ StageNetworks(1)
    \/ StageNamed(1)
    \/ StageConstruct(1)
    \/ UnitTrain(1)
    \/ UnitTrainFails(1)
    \/ UnitSave(1)
    \/ RunJoin

ResolveSpec == ResolveInit /\ [][ResolveNext]_vars

\* The launcher goes on, every started process is scheduled, and the training
\* loop of every process returns or raises
LiveSpec ==
    /\ Spec
    /\ WF_vars(RunEvaluate) /\ WF_vars(RunStart) /\ WF_vars(RunJoin)
    /\ \A i \in 1..MaxUnits : WF_vars(Unit(i))

(***************************************************************************)
(* The aggregator: generate_one_plot(experiment, attributes), on the       *)
(* output tree left by earlier launches.  An array is modelled by its      *)
(* shape.                                                                  *)
(***************************************************************************)
\* np.array(data) of line 390 for a list of arrays of the given shapes: the
\* empty list gives shape (0,), arrays of one shape s give (len,) + s, and
\* arrays of different lengths raise
Ragged(shapes) == \E a, b \in 1..Len(shapes) : shapes[a] # shapes[b]

NpArray(shapes) == IF shapes = <<>> THEN <<0>> ELSE <<Len(shapes)>> \o shapes[1]

\* data.mean(axis=0) and data.std(axis=0), lines 391-392: axis 0 is reduced
MeanAxis0(shape) == Tail(shape)

\* f"outputs/{exp_name}_{env_name}_{attr}.png", line 414
ChartPath(exp_name, env_name, attr) ==
    <<"outputs", "/">> \o exp_name \o <<"_">> \o env_name \o <<"_">> \o attr \o <<".png">>

PlotMethod == heap[experiments[1]["methods"][plot.mi]]

PlotAttr == plot.attributes[plot.a]

\* lines 381-389: one iteration of the loop over the runs of a method
PlotLoad ==
    /\ plot.pc = "runs"
    /\ plot.run < experiments[1]["num_runs"]
    /\ LET path == OutputPath(experiments[1]["env_name"], PlotMethod["name"],
                              plot.run, PlotAttr)
       IN  plot' = IF path \in DOMAIN disk
                   THEN [plot EXCEPT !.run = @ + 1, !.data = Append(@, disk[path]),
                                     !.loaded = @ \cup {plot.run}]
                   ELSE [plot EXCEPT !.run = @ + 1, !.notices = @ \cup {path}]
    /\ UNCHANGED <<experiments, heap, pc, idx, all_processes, procs, disk>>

\* lines 390-404: the curve of one method, after the loop over its runs
PlotAggregate ==
    /\ plot.pc = "runs"
    /\ plot.run = experiments[1]["num_runs"]
    /\ LET mean == MeanAxis0(NpArray(plot.data))
       IN  plot' =
             IF Ragged(plot.data) THEN [plot EXCEPT !.pc = "raised", !.error = "ValueError"]
             ELSE IF Len(mean) = 0
                  THEN [plot EXCEPT !.pc = "raised", !.error = "IndexError"]
             ELSE [plot EXCEPT
                     !.curves = @ \cup {[attr |-> PlotAttr, method |-> plot.mi,
                                         runs |-> plot.loaded, points |-> mean[1],
                                         divisor |-> experiments[1]["num_runs"]]},
                     !.run = 0, !.data = <<>>, !.loaded = {},
                     !.mi = IF plot.mi < Len(experiments[1]["methods"]) THEN @ + 1 ELSE 1,
                     !.pc = IF plot.mi < Len(experiments[1]["methods"])
                            THEN "runs" ELSE "chart"]
    /\ UNCHANGED <<experiments, heap, pc, idx, all_processes, procs, disk>>

\* lines 405-415: the chart of one attribute is saved
PlotSavefig ==
    /\ plot.pc = "chart"
    /\ plot' = [plot EXCEPT
                  !.charts = @ \cup {ChartPath(experiments[1]["exp_name"],
                                               experiments[1]["env_name"], PlotAttr)},
                  !.a = IF plot.a < Len(plot.attributes) THEN @ + 1 ELSE @,
                  !.pc = IF plot.a < Len(plot.attributes) THEN "runs" ELSE "returned"]
    /\ UNCHANGED <<experiments, heap, pc, idx, all_processes, procs, disk>>

PlotExperiments ==
    { t @@ [methods |-> ms, num_runs |-> r] :
        t \in ExperimentTemplates, ms \in {<<1>>, <<1, 2>>}, r \in 0..MaxRuns }

\* What an earlier run may have left of its output: nothing, or the files of
\* the metrics it returned
RunOutputs ==
    { EmptyDict,
      [k \in {Return} |-> <<2>>],
      [k \in {Return, ReturnCost} |-> <<2>>],
      [k \in {Return, ReturnCost} |-> <<3>>] }

\* The output tree in which run r of method entry mpos has left out[<<mpos, r>>]
TreeOf(exp, out) ==
    LET files == { f \in (DOMAIN out) \X {Return, ReturnCost} : f[2] \in DOMAIN out[f[1]] }
        path(f) == OutputPath(exp["env_name"], LaunchHeap[exp["methods"][f[1][1]]]["name"],
                              f[1][2], f[2])
    IN  [q \in {path(f) : f \in files} |->
            LET g == CHOOSE f \in files : path(f) = q IN out[g[1]][g[2]]]

PlotInit ==
    /\ experiments \in {<<e>> : e \in PlotExperiments}
    /\ heap = InjectDevice(LaunchHeap, experiments[1])
    /\ pc = "done"
    /\ idx = 0
    /\ all_processes = <<>>
    /\ procs = <<>>
    /\ \E out \in [(1..Len(experiments[1]["methods"])) \X (0..(experiments[1]["num_runs"] - 1))
                      -> RunOutputs] :
          disk = TreeOf(experiments[1], out)
    /\ \E attributes \in {<<Return>>, <<Return, ReturnCost>>} :
          plot = [pc |-> "runs", attributes |-> attributes, a |-> 1, mi |-> 1, run |-> 0,
                  data |-> <<>>, loaded |-> {}, notices |-> {}, curves |-> {},
                  charts |-> {}, error |-> "none"]

PlotNext == PlotLoad \/ PlotAggregate \/ PlotSavefig

PlotSpec == PlotInit /\ [][PlotNext]_vars

(***************************************************************************)
(* Properties of the launcher and its processes.                           *)
(***************************************************************************)
ProcIds == 1..Len(procs)

Started(i) == procs[i].pc # "created"

Exited(i) == procs[i].pc = "exited"

\* p.join() has returned for process i
Joined(i) == (pc = "join" /\ i < idx) \/ (pc = "done")

\* The experiments evaluate has been called for
Evaluated == IF pc = "evaluate" THEN idx - 1 ELSE Len(experiments)

\* The sum over the experiments of (number of methods x num_runs)
RECURSIVE TotalUnits(_)
TotalUnits(exps) ==
    IF exps = <<>> THEN 0 ELSE Units(Head(exps)) + TotalUnits(Tail(exps))

\* C1: no two processes of a launch ever write the same output path: the
\* sets of files written by two distinct units (experiment, method, run
\* index) are disjoint.
C1_DisjointOutputPaths ==
    \A i, j \in ProcIds :
        LET unit(k) == <<all_processes[k].e, all_processes[k].method,
                         all_processes[k].run_idx>>
        IN  unit(i) # unit(j) => procs[i].written \cap procs[j].written = {}

\* C2: every process is started before any process is joined, and run
\* returns only after every process has terminated.
C2_StartAllThenJoinAll ==
    /\ (\E i \in ProcIds : Joined(i)) =>
            /\ Evaluated = Len(experiments)
            /\ \A j \in ProcIds : Started(j)
    /\ \A i \in ProcIds : Joined(i) => Exited(i)
    /\ pc = "done" => \A i \in ProcIds : Started(i) /\ Exited(i)

C2_Witness ==
    /\ pc = "join" /\ idx = 2
    /\ Len(procs) = 2
    /\ all_processes[1].e # all_processes[2].e
    /\ ~ Exited(2)

\* C3: run creates exactly one process for every (experiment, method of the
\* experiment, run index below num_runs) and no other, each bound to the
\* env_name, budgets, print cadence and record_period of its own experiment,
\* so the number of processes is the sum of methods x num_runs.
C3_OneProcessPerUnit ==
    /\ \A e \in 1..Evaluated :
         \A mpos \in 1..Len(experiments[e]["methods"]) :
            \A r \in 0..(experiments[e]["num_runs"] - 1) :
               Cardinality({i \in 1..Len(all_processes) :
                               /\ all_processes[i].e = e
                               /\ all_processes[i].mpos = mpos
                               /\ all_processes[i].run_idx = r}) = 1
    /\ \A i \in 1..Len(all_processes) :
         LET p == all_processes[i]
         IN  /\ p.e \in 1..Evaluated
             /\ p.mpos \in 1..Len(experiments[p.e]["methods"])
             /\ p.run_idx \in 0..(experiments[p.e]["num_runs"] - 1)
             /\ p.env_name = experiments[p.e]["env_name"]
             /\ p.method = experiments[p.e]["methods"][p.mpos]
             /\ p.record_period = experiments[p.e]["record_period"]
             /\ p.num_steps = Get(experiments[p.e], "num_steps")
             /\ p.num_episodes = Get(experiments[p.e], "num_episodes")
             /\ p.print_every_x_steps = Get(experiments[p.e], "print_every_x_steps")
             /\ p.print_every_x_episodes = Get(experiments[p.e], "print_every_x_episodes")
    /\ Len(procs) = Len(all_processes)
    /\ pc # "evaluate" => Len(all_processes) = TotalUnits(experiments)

C3_Witness ==
    /\ pc = "done"
    /\ Len(experiments) = 2
    /\ Len(all_processes) = 2
    /\ all_processes[1].record_period # all_processes[2].record_period
    /\ all_processes[1].num_steps # all_processes[2].num_steps

\* The file unit i is to write for metric key, named from the launcher's data
OutputFile(i, key) ==
    OutputPath(experiments[all_processes[i].e]["env_name"],
               heap[all_processes[i].method]["name"], all_processes[i].run_idx, key)

\* C4: when run returns and no unit has failed, the output file of every
\* metric returned by the training loop of every unit exists on disk; no file
\* is written while the launcher is still creating units, nor by a unit
\* before it has been started and its training loop has returned.
C4_OutputsExistAtReturn ==
    /\ (pc = "done" /\ \A i \in ProcIds : ~ procs[i].failed) =>
          \A i \in ProcIds :
             /\ procs[i].returned # {}
             /\ \A key \in procs[i].returned : OutputFile(i, key) \in DOMAIN disk
    /\ pc = "evaluate" => disk = EmptyDict
    /\ \A i \in ProcIds :
          procs[i].written # {} => Started(i) /\ procs[i].returned # {}
    /\ \A path \in DOMAIN disk : \E i \in ProcIds : path \in procs[i].written

C4_Witness ==
    /\ pc = "done"
    /\ Len(procs) = 2
    /\ \A i \in ProcIds : ~ procs[i].failed
    /\ \E i \in ProcIds : Cardinality(procs[i].returned) = 2
    /\ Cardinality(DOMAIN disk) = 3

\* C6: a unit that fails during resolution or in the training loop writes no
\* output file and is never run again; the other units still terminate, and
\* the launcher returns once all of them have.
C6_FailureIsLocal ==
    /\ [](\A i \in ProcIds : procs[i].failed => Exited(i) /\ procs[i].written = {})
    /\ [][\A i \in ProcIds : procs[i].failed => procs'[i] = procs[i]]_vars
    /\ [][pc # "evaluate" => all_processes' = all_processes]_vars
    /\ \A i \in 1..MaxUnits :
          (i \in ProcIds /\ \E j \in ProcIds : procs[j].failed)
              ~> (pc = "done" /\ i \in ProcIds /\ Exited(i))

C6_Witness ==
    /\ pc = "done"
    /\ \E i, j \in ProcIds :
          /\ procs[j].failed /\ procs[j].written = {}
          /\ j < i
          /\ ~ procs[i].failed
          /\ procs[i].written # {}
          /\ procs[i].written \subseteq DOMAIN disk

\* The launcher's descriptor of process i's method as evaluate left it: the
\* descriptor of the benchmark config, with the agent_args of line 102
LaunchedMethod(i) ==
    Put(LaunchHeap[all_processes[i].method], "agent_args", heap[all_processes[i].method]["agent_args"])

\* C10: the writes a run's resolution makes to its method descriptor are seen
\* by no other run and not by the launcher: every run starts resolution from
\* the descriptor as the launcher left it, whatever the other runs have done.
C10_RunsIsolated ==
    /\ \A id \in DOMAIN heap :
          /\ DOMAIN heap[id] \subseteq DOMAIN LaunchHeap[id] \cup {"agent_args"}
          /\ \A k \in DOMAIN LaunchHeap[id] : heap[id][k] = LaunchHeap[id][k]
          /\ Has(heap[id], "agent_args") => DOMAIN heap[id]["agent_args"] = {"device_id"}
    /\ \A i \in ProcIds : Started(i) => procs[i].entry = LaunchedMethod(i)
    /\ \A i, j \in ProcIds :
          (Started(i) /\ Started(j) /\ all_processes[i].method = all_processes[j].method)
              => procs[i].entry = procs[j].entry

C10_Witness ==
    \E i, j \in ProcIds :
        /\ i # j
        /\ all_processes[i].method = all_processes[j].method
        /\ procs[i].pc = "resolve" /\ procs[i].method = procs[i].entry
        /\ procs[j].pc \in {"train", "save", "exited"}
        /\ ~ procs[j].failed
        /\ procs[j].method["policy_learner_args"] # procs[j].entry["policy_learner_args"]
        /\ procs[j].method["history_summarization_module_args"]
               # procs[j].entry["history_summarization_module_args"]
        /\ Has(procs[j].method["agent_args"], "history_summarization_module")

(***************************************************************************)
(* Properties of the resolution.                                           *)
(***************************************************************************)
\* The policy_learner_args process i has passed to the policy learner
Passed(i) == procs[i].passed[1]

Constructed(i) == procs[i].passed # None

ObservationDim(i) == Env(i).shape[1]

\* C7 as claimed: for a method without the history_summarization_module key,
\* the policy_learner_args passed to the policy learner hold state_dim =
\* env.observation_space.shape[0], whatever the name of the method.
C7_StateDimIsObservationDim ==
    \A i \in ProcIds :
        (Constructed(i) /\ ~ Has(procs[i].entry, "history_summarization_module")) =>
            /\ Has(Passed(i), "state_dim")
            /\ Passed(i)["state_dim"] = ObservationDim(i)

\* C7 as amended: for a method without the history_summarization_module key,
\* the passed policy_learner_args hold state_dim = env.observation_space.shape[0]
\* unless the method is named "BootstrappedDQN", and then they hold no state_dim.
C7_StateDimUnlessBootstrapped ==
    \A i \in ProcIds :
        (Constructed(i) /\ ~ Has(procs[i].entry, "history_summarization_module")) =>
            IF procs[i].entry["name"] = <<"BootstrappedDQN">>
            THEN ~ Has(Passed(i), "state_dim")
            ELSE /\ Has(Passed(i), "state_dim")
                 /\ Passed(i)["state_dim"] = ObservationDim(i)

C7_Witness ==
    \E i \in ProcIds :
        /\ Constructed(i)
        /\ ~ Has(procs[i].entry, "history_summarization_module")
        /\ procs[i].entry["name"] = <<"dynamic", "-", "DQN">>
        /\ Has(procs[i].entry, "network_module")
        /\ all_processes[i].env_name = <<"ALE", "/", "Pong">>
        /\ Passed(i)["state_dim"] = 3

\* What C8 says of the passed arguments of process i
BootstrappedArguments(i) ==
    /\ ~ Has(Passed(i), "state_dim")
    /\ Has(Passed(i), "q_ensemble_network")
    /\ Passed(i)["q_ensemble_network"].input = <<ObservationDim(i)>>
    /\ Passed(i)["q_ensemble_network"].action_dim = Env(i).n

\* C8 as claimed: for every method whose name contains "BootstrappedDQN", the
\* passed policy_learner_args hold no state_dim, and q_ensemble_network is
\* built from env.observation_space.shape[0] and env.action_space.n.
C8_NameContainsBootstrapped ==
    \A i \in ProcIds :
        (Constructed(i) /\ Contains(procs[i].entry["name"], <<"BootstrappedDQN">>))
            => BootstrappedArguments(i)

\* C8 as amended: the same, for every method whose name is "BootstrappedDQN".
C8_NameIsBootstrapped ==
    \A i \in ProcIds :
        (Constructed(i) /\ procs[i].entry["name"] = <<"BootstrappedDQN">>)
            => BootstrappedArguments(i)

C8_Witness ==
    \E i \in ProcIds :
        /\ Constructed(i)
        /\ procs[i].entry["name"] = <<"BootstrappedDQN">>
        /\ Passed(i)["action_representation_module"].representation_dim = Some(3)
        /\ Env(i).n = Some(2)
        /\ Passed(i)["q_ensemble_network"].action_dim = Some(2)
        /\ Has(procs[i].entry, "history_summarization_module")

RequestsStacking(i) ==
    /\ Has(procs[i].entry, "history_summarization_module")
    /\ Has(procs[i].entry, "history_summarization_module_args")
    /\ procs[i].entry["history_summarization_module"] = "StackingHistorySummarizationModule"

\* (observation_dim + action_dim) * history_length for process i, with the
\* representation_dim of the action representation module it has resolved
StackedDim(i) ==
    (ObservationDim(i)
        + procs[i].method["policy_learner_args"]["action_representation_module"]
              .representation_dim[1])
    * procs[i].entry["history_summarization_module_args"]["history_length"]

\* C9: for a method that requests StackingHistorySummarizationModule, the
\* state_dim the history step resolves is (observation_dim + action_dim) *
\* history_length, with observation_dim = env.observation_space.shape[0] and
\* action_dim the representation_dim of the action representation module,
\* which is resolved before the history step.
C9_StackedStateDim ==
    \A i \in ProcIds :
        RequestsStacking(i) =>
            /\ procs[i].pc = "history" =>
                  Has(procs[i].method["policy_learner_args"], "action_representation_module")
            /\ (procs[i].pc \in {"networks", "named"}
                  \/ (Constructed(i) /\ Has(procs[i].method["policy_learner_args"], "state_dim")))
               =>
                  /\ procs[i].method["history_summarization_module_args"]["observation_dim"]
                        = ObservationDim(i)
                  /\ procs[i].method["history_summarization_module_args"]["action_dim"]
                        = procs[i].method["policy_learner_args"]
                              ["action_representation_module"].representation_dim
                  /\ procs[i].method["history_summarization_module_args"]["action_dim"] # None
                  /\ procs[i].method["policy_learner_args"]["state_dim"] = StackedDim(i)
            /\ (Constructed(i) /\ Has(Passed(i), "state_dim")) =>
                  Passed(i)["state_dim"] = procs[i].method["policy_learner_args"]["state_dim"]

C9_Witness ==
    \E i \in ProcIds :
        /\ RequestsStacking(i)
        /\ Constructed(i)
        /\ all_processes[i].env_name = <<"CartPole">>
        /\ procs[i].entry["history_summarization_module_args"]["history_length"] = 3
        /\ procs[i].entry["action_representation_module"]
              = "OneHotActionTensorRepresentationModule"
        /\ Passed(i)["state_dim"] = 18

(***************************************************************************)
(* Properties of the aggregator.                                           *)
(***************************************************************************)
\* The runs of method entry mi whose file for attr is on disk
PresentRuns(mi, attr) ==
    { r \in 0..(experiments[1]["num_runs"] - 1) :
        OutputPath(experiments[1]["env_name"], heap[experiments[1]["methods"][mi]]["name"],
                   r, attr) \in DOMAIN disk }

\* C5: generate_one_plot tolerates absent run files: whatever the set of run
\* indices whose file is absent, each absent file is skipped with a notice,
\* the curve is aggregated over exactly the runs whose files are present,
\* and no error is raised (num_runs being positive and the loaded arrays
\* having one shape).
C5_AbsentFilesTolerated ==
    /\ plot.pc = "runs" =>
          /\ plot.loaded = {r \in PresentRuns(plot.mi, PlotAttr) : r < plot.run}
          /\ \A r \in 0..(plot.run - 1) :
                r \notin PresentRuns(plot.mi, PlotAttr) =>
                   OutputPath(experiments[1]["env_name"], PlotMethod["name"], r, PlotAttr)
                       \in plot.notices
    /\ \A c \in plot.curves : c.runs = PresentRuns(c.method, c.attr)
    /\ (plot.pc = "raised" /\ experiments[1]["num_runs"] > 0) => Ragged(plot.data)

\* C11: every unit created for an experiment runs with agent_args whose
\* device_id is the device_id of that experiment: the descriptor a started
\* process enters evaluate_single with, and the one it works on afterwards,
\* carry the device of the experiment the process was created for, also when
\* one descriptor object is listed by several experiments.
C11_DeviceOfOwnExperiment ==
    \A i \in ProcIds :
        Started(i) =>
            LET own == experiments[all_processes[i].e]["device_id"]
            IN  /\ procs[i].entry["agent_args"]["device_id"] = own
                /\ procs[i].method["agent_args"]["device_id"] = own

====
